---------------------------- MODULE Spec2Model ----------------------------
(***************************************************************************)
(* CUDA context management of RustaCUDA (src/src/context.rs).              *)
(*                                                                         *)
(* The Rust layer is a thin wrapper over the CUDA driver: every operation  *)
(* is one driver call followed by toResult().  The driver keeps the state: *)
(* the set of live contexts and one context stack per CPU thread.  The     *)
(* driver calls are modelled as operators on that state, following the     *)
(* behaviour the CUDA Driver API reference documents for each call; the    *)
(* Rust operations are the actions, each built from the driver call(s) its *)
(* body makes.                                                             *)
(***************************************************************************)
EXTENDS Integers, Sequences, FiniteSets

\* Bounds of the model.
NumThreads == 2
MaxCtx == 2
MaxDepth == 2
NumDevices == 2

\* enum CacheConfig and enum SharedMemoryConfig (#[repr(u32)]), the values used.
PreferNone == 0
PreferL1 == 2
DefaultBankSize == 0
EightByteBankSize == 2

\* bitflags ContextFlags.
SCHED_SPIN == 1
SCHED_YIELD == 2
SCHED_BLOCKING_SYNC == 4
SCHED_AUTO == 0
MAP_HOST == 8
LMEM_RESIZE_TO_MAX == 16

\* ptr::null_mut(): the CUcontext value that denotes "no context".
NULL == 0

Threads == 1..NumThreads
\* Native context handles (CUcontext values) the driver can hand out.
Handles == 1..MaxCtx
\* Every value a CUcontext field can hold.
CUcontext == {NULL} \cup Handles

VARIABLES
    stack,      \* driver: stack[t] is the context stack of CPU thread t
    live,       \* driver: contexts created and not yet destroyed
    created,    \* driver: number of contexts created so far
    destroyCalls, \* destroyCalls[h]: cuCtxDestroy_v2 calls issued for handle h
    owning,     \* owning[t][h]: Context values with inner = h held by thread t
    unowned,    \* the handles h some UnownedContext { inner: h } in existence wraps
    status,     \* status[t]: "running", "unwinding" (after a panic) or "aborted"
    attrs,      \* driver: attrs[h] is the device, the flags and the configuration
                \* of context h (asked: the ContextFlags its creator passed)
    faults,     \* environment: whether the driver can be made to fail a call
    watch,      \* which history is recorded ("last" or "prev"), or which input
                \* is varied ("device", "flags", "cache_config", ...)
    watched,    \* the thread whose calls prev records (NULL: none)
    last,       \* history: the operation executed by the last step and its result
    prev,       \* history: the last two stack operations of thread watched, or
                \* its last set of a configuration and the get that followed
    pc          \* pc[t]: where thread t is in the multi-thread scenario ("free":
                \* the thread runs no fixed program)

vars == <<stack, live, created, destroyCalls, owning, unowned, status, attrs,
          faults, watch, watched, last, prev, pc>>

-----------------------------------------------------------------------------
\* Sequence helpers.
Top(s) == IF s = <<>> THEN NULL ELSE s[Len(s)]

Front(s) == IF s = <<>> THEN <<>> ELSE SubSeq(s, 1, Len(s) - 1)

-----------------------------------------------------------------------------
\* error::ToResult: CUDA_SUCCESS becomes Ok, every other status an Err.
toResult(code) == IF code = "CUDA_SUCCESS" THEN "Ok" ELSE "Err"

-----------------------------------------------------------------------------
\* The driver calls.  s is the calling thread's stack, lv the live contexts.

\* Faulty variant: the context is created but not pushed.
cuCtxCreateNoPush(s, lv, c, native) ==
    IF native = "CUDA_SUCCESS"
    THEN [code |-> "CUDA_SUCCESS", stack |-> s, live |-> lv \cup {c}, ctx |-> c]
    ELSE [code |-> native, stack |-> s, live |-> lv, ctx |-> NULL]

\* cuCtxCreate_v2: creates context c and pushes it on the caller's stack.  c
\* is a handle value the driver has not handed out before.
cuCtxCreate_v2(s, lv, c, native) ==
    IF native = "CUDA_SUCCESS"
    THEN [code |-> "CUDA_SUCCESS", stack |-> Append(s, c), live |-> lv \cup {c}, ctx |-> c]
    ELSE [code |-> native, stack |-> s, live |-> lv, ctx |-> NULL]

\* Faulty variant: the destroyed context stays on the caller's stack.
cuCtxDestroyNoPop(s, lv, h, native) ==
    IF native # "CUDA_SUCCESS"
    THEN [code |-> native, stack |-> s, live |-> lv]
    ELSE IF h \notin lv
    THEN [code |-> "CUDA_ERROR_INVALID_CONTEXT", stack |-> s, live |-> lv]
    ELSE [code |-> "CUDA_SUCCESS", stack |-> s, live |-> lv \ {h}]

\* cuCtxDestroy_v2: destroys h however many threads it is current to; if h is
\* current to the calling thread it is also popped from that thread's stack.
cuCtxDestroy_v2(s, lv, h, native) ==
    IF native # "CUDA_SUCCESS"
    THEN [code |-> native, stack |-> s, live |-> lv]
    ELSE IF h \notin lv
    THEN [code |-> "CUDA_ERROR_INVALID_CONTEXT", stack |-> s, live |-> lv]
    ELSE [code |-> "CUDA_SUCCESS",
          stack |-> IF Top(s) = h THEN Front(s) ELSE s,
          live |-> lv \ {h}]

\* Faulty variant: the handle is not validated.
cuCtxGetApiVersionUnchecked(lv, h) == {"CUDA_SUCCESS"}

\* cuCtxGetApiVersion: the version of a live context; a destroyed handle is
\* reported as invalid.  The reference leaves the NULL handle open.
cuCtxGetApiVersion(lv, h) ==
    IF h \in lv THEN {"CUDA_SUCCESS"}
    ELSE IF h = NULL THEN {"CUDA_SUCCESS", "CUDA_ERROR_INVALID_CONTEXT"}
    ELSE {"CUDA_ERROR_INVALID_CONTEXT"}

\* Faulty variant: an empty stack is not reported.
cuCtxPopCurrentLenient(s) ==
    [code |-> "CUDA_SUCCESS", stack |-> Front(s), ctx |-> Top(s)]

\* cuCtxPopCurrent_v2: pops the caller's current context and passes it back.
cuCtxPopCurrent_v2(s) ==
    IF s = <<>>
    THEN [code |-> "CUDA_ERROR_INVALID_CONTEXT", stack |-> s, ctx |-> NULL]
    ELSE [code |-> "CUDA_SUCCESS", stack |-> Front(s), ctx |-> Top(s)]

\* cuCtxPushCurrent_v2: pushes a valid context on the caller's stack.
cuCtxPushCurrent_v2(s, lv, h) ==
    IF h = NULL THEN [code |-> "CUDA_ERROR_INVALID_VALUE", stack |-> s]
    ELSE IF h \notin lv THEN [code |-> "CUDA_ERROR_INVALID_CONTEXT", stack |-> s]
    ELSE [code |-> "CUDA_SUCCESS", stack |-> Append(s, h)]

\* cuCtxGetCurrent: the context bound to the caller; with none bound it sets
\* the out-parameter to NULL and still returns CUDA_SUCCESS.
cuCtxGetCurrent(s) == [code |-> "CUDA_SUCCESS", ctx |-> Top(s)]

\* Faulty variant: the old top is unbound before the handle is validated.
cuCtxSetCurrentUnbindsFirst(s, lv, h) ==
    IF h = NULL THEN [code |-> "CUDA_SUCCESS", stack |-> Front(s)]
    ELSE IF h \notin lv THEN [code |-> "CUDA_ERROR_INVALID_CONTEXT", stack |-> Front(s)]
    ELSE [code |-> "CUDA_SUCCESS", stack |-> Append(Front(s), h)]

\* Faulty variant: binding on an empty stack is rejected.
cuCtxSetCurrentReplaceOnly(s, lv, h) ==
    IF h = NULL THEN [code |-> "CUDA_SUCCESS", stack |-> Front(s)]
    ELSE IF h \notin lv \/ s = <<>> THEN [code |-> "CUDA_ERROR_INVALID_CONTEXT", stack |-> s]
    ELSE [code |-> "CUDA_SUCCESS", stack |-> Append(Front(s), h)]

\* cuCtxSetCurrent: replaces the top of the caller's stack with h (pushes it
\* on an empty stack); with h = NULL it pops the top (no-op on an empty stack).
cuCtxSetCurrent(s, lv, h) ==
    IF h = NULL THEN [code |-> "CUDA_SUCCESS", stack |-> Front(s)]
    ELSE IF h \notin lv THEN [code |-> "CUDA_ERROR_INVALID_CONTEXT", stack |-> s]
    ELSE [code |-> "CUDA_SUCCESS", stack |-> Append(Front(s), h)]

\* The driver calls that act on the caller's current context (cuCtxGetDevice,
\* cuCtxGetFlags, cuCtxSynchronize, ...): they need a current context that
\* has not been destroyed.
cuCtxCurrentCall(s, lv) ==
    IF s = <<>> THEN "CUDA_ERROR_INVALID_CONTEXT"
    ELSE IF Top(s) \notin lv THEN "CUDA_ERROR_CONTEXT_IS_DESTROYED"
    ELSE "CUDA_SUCCESS"

\* Bit operations on u32 flag words.
RECURSIVE BitAnd(_, _)
BitAnd(a, b) ==
    IF a = 0 \/ b = 0 THEN 0
    ELSE (a % 2) * (b % 2) + 2 * BitAnd(a \div 2, b \div 2)

BitOr(a, b) == a + b - BitAnd(a, b)

\* The attributes of a handle that names no context.
NoAttrs ==
    [device |-> 0, flags |-> 0, asked |-> [bits |-> 0], cache_config |-> PreferNone,
     shared_memory_config |-> DefaultBankSize, resource_limit |-> 1024]

\* cuCtxCreate_v2(&ctx, flags, dev): the new context is bound to device dev,
\* keeps the flags word it was created with and starts with the default
\* configuration.
cuCtxNew(flags, dev) == [NoAttrs EXCEPT !.device = dev, !.flags = flags]

\* The scheduling flags are the three low bits of the flags word, and are
\* alternatives; the reference does not say what a word that sets several of
\* them yields, so the driver may refuse it.
cuCtxCreateRefusals(flags) ==
    IF BitAnd(flags, 7) \in {SCHED_AUTO, SCHED_SPIN, SCHED_YIELD, SCHED_BLOCKING_SYNC}
    THEN {}
    ELSE {"CUDA_ERROR_INVALID_VALUE"}

\* Faulty variant: the value is accepted and not recorded.
cuCtxSetIgnored(s, lv, at, field, v) ==
    [code |-> cuCtxCurrentCall(s, lv), attrs |-> at]

\* Faulty variant: the attribute is read from the context bound first.
cuCtxGetOfFirst(s, lv, at, field) ==
    LET code == cuCtxCurrentCall(s, lv)
    IN  [code |-> code, val |-> IF code = "CUDA_SUCCESS" THEN at[s[1]][field] ELSE NULL]

\* cuCtxGetDevice, cuCtxGetFlags, cuCtxGetCacheConfig, cuCtxGetSharedMemConfig,
\* cuCtxGetLimit: the attribute of the caller's current context.  (The device
\* is one with configurable cache and banks, and the limit one the driver
\* takes as asked.)
cuCtxGet(s, lv, at, field) ==
    LET code == cuCtxCurrentCall(s, lv)
    IN  [code |-> code, val |-> IF code = "CUDA_SUCCESS" THEN at[Top(s)][field] ELSE NULL]

\* cuCtxSetCacheConfig, cuCtxSetSharedMemConfig, cuCtxSetLimit: the attribute
\* of the caller's current context is overwritten; the driver takes no lock
\* the caller could hold across two calls.
cuCtxSet(s, lv, at, field, v) ==
    LET code == cuCtxCurrentCall(s, lv)
    IN  [code |-> code,
         attrs |-> IF code = "CUDA_SUCCESS" THEN [at EXCEPT ![Top(s)][field] = v] ELSE at]

-----------------------------------------------------------------------------
\* The Rust operations, as functions of the driver state they act on.  Each
\* yields the Result (res), the handle wrapped by the returned value (inner)
\* and the driver state the call leaves behind.

\* Faulty variant: the new context is popped again before it is returned.
create_and_push_then_pop(s, lv, c, native) ==
    LET r == cuCtxCreate_v2(s, lv, c, native)
        q == cuCtxPopCurrent_v2(r.stack)
    IN  IF toResult(r.code) = "Ok"
        THEN [res |-> toResult(q.code), inner |-> r.ctx, stack |-> q.stack, live |-> r.live]
        ELSE [res |-> toResult(r.code), inner |-> r.ctx, stack |-> r.stack, live |-> r.live]

\* Context::create_and_push: Ok(Context { inner: ctx }) after cuCtxCreate_v2.
create_and_push(s, lv, c, native) ==
    LET r == cuCtxCreate_v2(s, lv, c, native)
    IN  [res |-> toResult(r.code), inner |-> r.ctx, stack |-> r.stack, live |-> r.live]

\* Context::get_api_version / UnownedContext::get_api_version on inner = h:
\* the Results the call can yield.
get_api_version(lv, h) == {toResult(code) : code \in cuCtxGetApiVersion(lv, h)}

\* Context::get_unowned: UnownedContext { inner: self.inner }.
get_unowned(h) == h

\* ContextHandle::get_inner, for Context and for UnownedContext.
get_inner(h) == h

\* Faulty variant: the result of the destroy is discarded.
dropSwallowsError(s, lv, h, native) ==
    LET r == cuCtxDestroy_v2(s, lv, h, native)
    IN  [res |-> toResult(r.code), panic |-> FALSE, stack |-> r.stack, live |-> r.live]

\* impl Drop for Context: cuCtxDestroy_v2(self.inner).toResult().unwrap().
drop(s, lv, h, native) ==
    LET r == cuCtxDestroy_v2(s, lv, h, native)
    IN  [res |-> toResult(r.code), panic |-> toResult(r.code) = "Err",
         stack |-> r.stack, live |-> r.live]

\* Faulty variant: the top entry is read but not removed.
popLeavesEntry(s) ==
    LET r == cuCtxPopCurrent_v2(s)
    IN  [res |-> toResult(r.code), inner |-> r.ctx, stack |-> s]

\* Faulty variant: the handle the driver passes back is lost, the result wraps null.
popLosesHandle(s) ==
    LET r == cuCtxPopCurrent_v2(s)
    IN  [res |-> toResult(r.code), inner |-> NULL, stack |-> r.stack]

\* ContextStack::pop: Ok(UnownedContext { inner: ctx }) after cuCtxPopCurrent_v2.
pop(s) ==
    LET r == cuCtxPopCurrent_v2(s)
    IN  [res |-> toResult(r.code), inner |-> r.ctx, stack |-> r.stack]

\* ContextStack::push: cuCtxPushCurrent_v2(ctx.get_inner()).
push(s, lv, h) ==
    LET r == cuCtxPushCurrent_v2(s, lv, get_inner(h))
    IN  [res |-> toResult(r.code), stack |-> r.stack]

\* CurrentContext::get_current: Ok(UnownedContext { inner: ctx }) after
\* cuCtxGetCurrent.
get_current(s) ==
    LET r == cuCtxGetCurrent(s)
    IN  [res |-> toResult(r.code), inner |-> r.ctx]

\* CurrentContext::set_current: cuCtxSetCurrent(c.get_inner()).
set_current(s, lv, h) ==
    LET r == cuCtxSetCurrent(s, lv, get_inner(h))
    IN  [res |-> toResult(r.code), stack |-> r.stack]

\* bitflags ContextFlags: a value is a u32 of flag bits.
FlagNames ==
    {"SCHED_SPIN", "SCHED_YIELD", "SCHED_BLOCKING_SYNC", "SCHED_AUTO", "MAP_HOST",
     "LMEM_RESIZE_TO_MAX"}

FlagBits(name) ==
    CASE name = "SCHED_SPIN" -> SCHED_SPIN
      [] name = "SCHED_YIELD" -> SCHED_YIELD
      [] name = "SCHED_BLOCKING_SYNC" -> SCHED_BLOCKING_SYNC
      [] name = "SCHED_AUTO" -> SCHED_AUTO
      [] name = "MAP_HOST" -> MAP_HOST
      [] name = "LMEM_RESIZE_TO_MAX" -> LMEM_RESIZE_TO_MAX

\* The ContextFlags value A | B | ... for the flags named in S.
RECURSIVE ContextFlags(_)
ContextFlags(S) ==
    IF S = {} THEN [bits |-> 0]
    ELSE LET x == CHOOSE x \in S : TRUE
         IN  [bits |-> BitOr(FlagBits(x), ContextFlags(S \ {x}).bits)]

\* ContextFlags::bits.
bits(F) == F.bits

\* ContextFlags::all.
all == ContextFlags(FlagNames)

\* Faulty variant: LMEM_RESIZE_TO_MAX is not among the flags that are kept.
from_bits_truncateNarrow(n) == [bits |-> BitAnd(n, all.bits - LMEM_RESIZE_TO_MAX)]

\* ContextFlags::from_bits_truncate: the bits that name no flag are dropped.
from_bits_truncate(n) == [bits |-> BitAnd(n, all.bits)]

\* The CurrentContext getters and setters and synchronize: one driver call on
\* the caller's current context each.  A getter yields [res, val], a setter
\* [res, attrs].
get_cache_config(s, lv, at) ==
    LET r == cuCtxGet(s, lv, at, "cache_config")
    IN  [res |-> toResult(r.code), val |-> r.val]

get_device(s, lv, at) ==
    LET r == cuCtxGet(s, lv, at, "device")
    IN  [res |-> toResult(r.code), val |-> r.val]

get_flags(s, lv, at) ==
    LET r == cuCtxGet(s, lv, at, "flags")
    IN  [res |-> toResult(r.code),
         val |-> IF toResult(r.code) = "Ok" THEN from_bits_truncate(r.val) ELSE NULL]

\* get_resource_limit(ResourceLimit::StackSize).
get_resource_limit(s, lv, at) ==
    LET r == cuCtxGet(s, lv, at, "resource_limit")
    IN  [res |-> toResult(r.code), val |-> r.val]

get_shared_memory_config(s, lv, at) ==
    LET r == cuCtxGet(s, lv, at, "shared_memory_config")
    IN  [res |-> toResult(r.code), val |-> r.val]

get_stream_priority_range(s, lv) == [res |-> toResult(cuCtxCurrentCall(s, lv)), val |-> NULL]

set_cache_config(s, lv, at, cfg) ==
    LET r == cuCtxSet(s, lv, at, "cache_config", cfg)
    IN  [res |-> toResult(r.code), attrs |-> r.attrs]

\* set_resource_limit(ResourceLimit::StackSize, limit).
set_resource_limit(s, lv, at, limit) ==
    LET r == cuCtxSet(s, lv, at, "resource_limit", limit)
    IN  [res |-> toResult(r.code), attrs |-> r.attrs]

set_shared_memory_config(s, lv, at, cfg) ==
    LET r == cuCtxSet(s, lv, at, "shared_memory_config", cfg)
    IN  [res |-> toResult(r.code), attrs |-> r.attrs]

synchronize(s, lv) == [res |-> toResult(cuCtxCurrentCall(s, lv)), val |-> NULL]

CurrentContextOps ==
    {"get_cache_config", "get_device", "get_flags", "get_resource_limit",
     "get_shared_memory_config", "get_stream_priority_range", "set_cache_config",
     "set_resource_limit", "set_shared_memory_config", "synchronize"}

\* The call op with argument arg (NULL for the calls that take none):
\* [res, val, attrs].
CurrentContextCall(op, s, lv, at, arg) ==
    LET got(r) == [res |-> r.res, val |-> r.val, attrs |-> at]
        did(r) == [res |-> r.res, val |-> NULL, attrs |-> r.attrs]
    IN  CASE op = "get_cache_config" -> got(get_cache_config(s, lv, at))
          [] op = "get_device" -> got(get_device(s, lv, at))
          [] op = "get_flags" -> got(get_flags(s, lv, at))
          [] op = "get_resource_limit" -> got(get_resource_limit(s, lv, at))
          [] op = "get_shared_memory_config" -> got(get_shared_memory_config(s, lv, at))
          [] op = "get_stream_priority_range" -> got(get_stream_priority_range(s, lv))
          [] op = "set_cache_config" -> did(set_cache_config(s, lv, at, arg))
          [] op = "set_resource_limit" -> did(set_resource_limit(s, lv, at, arg))
          [] op = "set_shared_memory_config" -> did(set_shared_memory_config(s, lv, at, arg))
          [] op = "synchronize" -> got(synchronize(s, lv))

-----------------------------------------------------------------------------
\* Bookkeeping of the handle values the program holds.

\* Handles thread t can pass as a ContextHandle: its own Context values (a
\* Context holds a raw pointer, so it is neither Send nor Sync) and every
\* UnownedContext (Send + Sync).
Available(t) ==
    {h \in Handles : owning[t][h] > 0} \cup unowned

Running(t) == status[t] = "running"

\* The inputs of the program.  Each specification varies the inputs its
\* properties are about (watch) and fixes the others.
Devices == IF watch = "device" THEN 0..(NumDevices - 1) ELSE {0}

FlagChoices ==
    IF watch = "flags"
    THEN {{"SCHED_AUTO"}, {"MAP_HOST", "SCHED_AUTO"}, {"SCHED_YIELD", "LMEM_RESIZE_TO_MAX"},
          FlagNames}
    ELSE {{"MAP_HOST", "SCHED_AUTO"}}

Args(op) ==
    CASE op = "set_cache_config" ->
            IF watch = "cache_config" THEN {PreferNone, PreferL1} ELSE {PreferNone}
      [] op = "set_shared_memory_config" ->
            IF watch = "shared_memory_config"
            THEN {DefaultBankSize, EightByteBankSize} ELSE {DefaultBankSize}
      [] op = "set_resource_limit" ->
            IF watch = "resource_limit" THEN {1024, 2048} ELSE {1024}
      [] OTHER -> {NULL}

\* The statuses the driver can return for a call that would succeed.
Native == IF faults THEN {"CUDA_SUCCESS", "CUDA_ERROR_UNKNOWN"} ELSE {"CUDA_SUCCESS"}

-----------------------------------------------------------------------------
\* History.  last is the operation of the last step: thread t called op with
\* handle h, got res and (in an Ok) a value wrapping ret (for get_api_version:
\* the version of context ret); before is the
\* stack of t when it made the call, stacks and lives are the stacks of all
\* threads and the live contexts at that moment.
NoNote ==
    [op |-> "none", t |-> 1, h |-> NULL, res |-> "Ok", ret |-> NULL, before |-> <<>>,
     stacks |-> <<>>, lives |-> {}]

ConfigKeys == {"cache_config", "shared_memory_config", "resource_limit"}

ConfigSetters == {"set_cache_config", "set_shared_memory_config", "set_resource_limit"}

\* The operations recorded when the inputs under watch are varied.
WatchedOps ==
    CASE watch = "device" -> {"get_device", "get_current"}
      [] watch = "flags" -> {"get_flags"}
      [] watch = "cache_config" -> {"get_cache_config", "set_cache_config"}
      [] watch = "shared_memory_config" ->
            {"get_shared_memory_config", "set_shared_memory_config"}
      [] watch = "resource_limit" -> {"get_resource_limit", "set_resource_limit"}
      [] OTHER -> {}

\* (With a configuration input varied, either the calls are recorded in
\* last, watched = NULL, or the calls of thread watched in prev.)
Note(op, t, h, res, ret) ==
    IF watch = "last" \/ (op \in WatchedOps /\ (watch \in ConfigKeys => watched = NULL))
    THEN [op |-> op, t |-> t, h |-> h, res |-> res, ret |-> ret, before |-> stack[t],
          stacks |-> stack, lives |-> live]
    ELSE NoNote

\* prev is the last stack operation of thread watched (op, h, res, ret, before
\* as in last); the stack operation it made just before that one, if that was
\* a successful create_and_push or push (priorOp, else "none"), with the
\* handle created or pushed (priorH) and the stack it was called with
\* (priorBefore); and what its last get_current since has returned (got,
\* gotInner).
NoOp ==
    [op |-> "none", h |-> NULL, res |-> "Ok", ret |-> NULL, before |-> <<>>,
     priorOp |-> "none", priorH |-> NULL, priorBefore |-> <<>>,
     got |-> "none", gotInner |-> NULL]

\* When a configuration input is varied, prev is the last call of thread
\* watched if that was a successful set of it (op, h: the value written,
\* before), with what a get that followed it at once returned (got,
\* gotInner); any other call of the thread clears it.
Forget(t) == IF watch \in ConfigKeys /\ t = watched THEN NoOp ELSE prev

RememberConfig(op, t, arg, res, val) ==
    IF ~(watch \in ConfigKeys /\ t = watched) THEN prev
    ELSE IF op \in WatchedOps \cap ConfigSetters /\ res = "Ok"
    THEN [NoOp EXCEPT !.op = op, !.h = arg, !.before = stack[t]]
    ELSE IF op \in WatchedOps \ ConfigSetters /\ prev.op \in ConfigSetters /\ prev.got = "none"
    THEN [prev EXCEPT !.got = res, !.gotInner = val]
    ELSE NoOp

Remember(op, t, h, res, ret) ==
    IF watch = "prev" /\ t = watched
    THEN LET kept == prev.op \in {"create_and_push", "push"} /\ prev.res = "Ok"
         IN  [op |-> op, h |-> h, res |-> res, ret |-> ret, before |-> stack[t],
              priorOp |-> IF kept THEN prev.op ELSE "none",
              priorH |-> IF ~kept THEN NULL
                         ELSE IF prev.op = "push" THEN prev.h ELSE prev.ret,
              priorBefore |-> IF kept THEN prev.before ELSE <<>>,
              got |-> "none", gotInner |-> NULL]
    ELSE Forget(t)

RememberGot(t, res, ret) ==
    IF watch = "prev" /\ t = watched
    THEN [prev EXCEPT !.got = res, !.gotInner = ret]
    ELSE Forget(t)

-----------------------------------------------------------------------------
InitProgram ==
    /\ stack = [t \in Threads |-> <<>>]
    /\ live = {}
    /\ created = 0
    /\ destroyCalls = [h \in Handles |-> 0]
    /\ owning = [t \in Threads |-> [h \in Handles |-> 0]]
    /\ unowned = {}
    /\ status = [t \in Threads |-> "running"]
    /\ last = NoNote
    /\ prev = NoOp
    /\ pc = [t \in Threads |-> "free"]
    /\ attrs = [h \in Handles |-> NoAttrs]

\* Whether h is an entry of thread t's stack.
OnStack(t, h) == \E i \in 1..Len(stack[t]) : stack[t][i] = h

\* A healthy driver; the operation of each step is recorded.
Init == InitProgram /\ faults = FALSE /\ watch = "last" /\ watched = 1

\* A healthy driver; the recent stack operations of one thread, any of them,
\* are recorded.
InitSeq == InitProgram /\ faults = FALSE /\ watch = "prev" /\ watched \in Threads

\* A driver that can be forced to fail; the operation of each step is recorded.
InitFault == InitProgram /\ faults = TRUE /\ watch = "last" /\ watched = 1

\* let context = Context::create_and_push(flags, device) on thread t.
CreateAndPush(t) ==
    /\ Running(t)
    /\ created < MaxCtx
    /\ Len(stack[t]) < MaxDepth
    /\ \E S \in FlagChoices, dev \in Devices :
       \E native \in Native \cup cuCtxCreateRefusals(bits(ContextFlags(S))) :
        LET c == created + 1
            flags == ContextFlags(S)
            r == create_and_push(stack[t], live, c, native)
        IN  /\ stack' = [stack EXCEPT ![t] = r.stack]
            /\ live' = r.live
            /\ created' = IF r.res = "Ok" THEN c ELSE created
            /\ owning' = IF r.res = "Ok"
                          THEN [owning EXCEPT ![t][r.inner] = @ + 1]
                          ELSE owning
            /\ attrs' = IF r.res = "Ok"
                         THEN [attrs EXCEPT ![r.inner] =
                                  [cuCtxNew(bits(flags), dev) EXCEPT !.asked = flags]]
                         ELSE attrs
            /\ last' = Note("create_and_push", t, NULL, r.res, r.inner)
            /\ prev' = Remember("create_and_push", t, NULL, r.res, r.inner)
    /\ UNCHANGED <<destroyCalls, unowned, status, faults, watch, watched, pc>>

\* context.get_api_version() on thread t, for its Context with inner = h.
ContextGetApiVersion(t, h) ==
    /\ Running(t)
    /\ owning[t][h] > 0
    /\ \E res \in get_api_version(live, h) :
        last' = Note("Context::get_api_version", t, h, res, get_inner(h))
    /\ prev' = Forget(t)
    /\ UNCHANGED <<stack, live, created, destroyCalls, owning, unowned, status, faults, watch, watched, pc, attrs>>

\* Faulty variant: get_unowned hands out a second Context.
GetUnownedAsContext(t, h) ==
    /\ Running(t)
    /\ owning[t][h] > 0
    /\ owning' = [owning EXCEPT ![t][get_unowned(h)] = @ + 1]
    /\ last' = Note("get_unowned", t, h, "Ok", get_unowned(h))
    /\ prev' = Forget(t)
    /\ UNCHANGED <<stack, live, created, destroyCalls, unowned, status, faults, watch, watched, pc, attrs>>

\* Faulty variant: get_unowned also makes the context current to the caller.
GetUnownedBinds(t, h) ==
    /\ Running(t)
    /\ owning[t][h] > 0
    /\ stack' = [stack EXCEPT ![t] = set_current(stack[t], live, h).stack]
    /\ unowned' = unowned \cup {get_unowned(h)}
    /\ last' = Note("get_unowned", t, h, "Ok", get_unowned(h))
    /\ prev' = Forget(t)
    /\ UNCHANGED <<live, created, destroyCalls, owning, status, faults, watch, watched, pc, attrs>>

\* context.get_unowned() on thread t, for its Context with inner = h.
GetUnowned(t, h) ==
    /\ Running(t)
    /\ owning[t][h] > 0
    /\ unowned' = unowned \cup {get_unowned(h)}
    /\ last' = Note("get_unowned", t, h, "Ok", get_unowned(h))
    /\ prev' = Forget(t)
    /\ UNCHANGED <<stack, live, created, destroyCalls, owning, status, faults, watch, watched, pc, attrs>>

\* Faulty variant: the destroy is skipped while the context is on another thread's
\* stack.
DropDeferredWhileInUse(t, h) ==
    /\ status[t] # "aborted"
    /\ owning[t][h] > 0
    /\ \E native \in Native :
        LET inUse == \E u \in Threads \ {t} : OnStack(u, h)
            r == IF inUse
                 THEN [res |-> "Ok", panic |-> FALSE, stack |-> stack[t], live |-> live]
                 ELSE drop(stack[t], live, h, native)
        IN  /\ stack' = [stack EXCEPT ![t] = r.stack]
            /\ live' = r.live
            /\ status' = IF ~r.panic THEN status
                          ELSE IF status[t] = "unwinding"
                          THEN [u \in Threads |-> "aborted"]
                          ELSE [status EXCEPT ![t] = "unwinding"]
            /\ last' = Note("drop", t, h, r.res, NULL)
            /\ prev' = Remember("drop", t, h, r.res, NULL)
            /\ destroyCalls' = IF inUse THEN destroyCalls
                               ELSE [destroyCalls EXCEPT ![h] = @ + 1]
    /\ owning' = [owning EXCEPT ![t][h] = @ - 1]
    /\ UNCHANGED <<created, unowned, faults, watch, watched, pc, attrs>>

\* The Context with inner = h held by thread t goes out of scope (also while
\* t unwinds).  A failed destroy panics; a panic while unwinding aborts.
Drop(t, h) ==
    /\ status[t] # "aborted"
    /\ owning[t][h] > 0
    /\ \E native \in Native :
        LET r == drop(stack[t], live, h, native)
        IN  /\ stack' = [stack EXCEPT ![t] = r.stack]
            /\ live' = r.live
            /\ status' = IF ~r.panic THEN status
                          ELSE IF status[t] = "unwinding"
                          THEN [u \in Threads |-> "aborted"]
                          ELSE [status EXCEPT ![t] = "unwinding"]
            /\ attrs' = IF r.res = "Ok" THEN [attrs EXCEPT ![h] = NoAttrs] ELSE attrs
            /\ last' = Note("drop", t, h, r.res, NULL)
            /\ prev' = Remember("drop", t, h, r.res, NULL)
    /\ destroyCalls' = [destroyCalls EXCEPT ![h] = @ + 1]
    /\ owning' = [owning EXCEPT ![t][h] = @ - 1]
    /\ UNCHANGED <<created, unowned, faults, watch, watched, pc>>

\* Faulty variant: the version is read from the caller's current context.
UnownedGetApiVersionOfCurrent(t, h) ==
    /\ Running(t)
    /\ h \in unowned
    /\ \E res \in get_api_version(live, Top(stack[t])) :
        last' = Note("UnownedContext::get_api_version", t, h, res, Top(stack[t]))
    /\ prev' = Forget(t)
    /\ UNCHANGED <<stack, live, created, destroyCalls, owning, unowned, status, faults, watch, watched, pc, attrs>>

\* unowned.get_api_version() on thread t, for an UnownedContext with inner = h.
UnownedGetApiVersion(t, h) ==
    /\ Running(t)
    /\ h \in unowned
    /\ \E res \in get_api_version(live, h) :
        last' = Note("UnownedContext::get_api_version", t, h, res, get_inner(h))
    /\ prev' = Forget(t)
    /\ UNCHANGED <<stack, live, created, destroyCalls, owning, unowned, status, faults, watch, watched, pc, attrs>>

\* unowned.clone() on thread t (#[derive(Clone)]).
Clone(t, h) ==
    /\ Running(t)
    /\ h \in unowned
    /\ last' = Note("clone", t, h, "Ok", h)
    /\ prev' = Forget(t)
    /\ UNCHANGED <<stack, live, created, destroyCalls, owning, unowned, status, faults, watch, watched, pc, attrs>>

\* Faulty variant: dropping an UnownedContext destroys the context it wraps.
DropUnownedDestroys(t, h) ==
    /\ Running(t)
    /\ h \in unowned
    /\ unowned' = unowned \ {h}
    /\ live' = live \ {h}
    /\ last' = Note("drop_unowned", t, h, "Ok", NULL)
    /\ prev' = Forget(t)
    /\ UNCHANGED <<stack, created, destroyCalls, owning, status, faults, watch, watched, pc, attrs>>

\* The UnownedContext values with inner = h go out of scope, the last of them
\* on thread t: the type has no Drop impl, the values just cease to exist.
DropUnowned(t, h) ==
    /\ Running(t)
    /\ h \in unowned
    /\ unowned' = unowned \ {h}
    /\ last' = Note("drop_unowned", t, h, "Ok", NULL)
    /\ prev' = Forget(t)
    /\ UNCHANGED <<stack, live, created, destroyCalls, owning, status, faults, watch, watched, pc, attrs>>

\* Faulty variant: pop returns an owning Context.
PopReturnsContext(t) ==
    /\ Running(t)
    /\ LET r == pop(stack[t])
       IN  /\ stack' = [stack EXCEPT ![t] = r.stack]
           /\ owning' = IF r.res = "Ok" /\ r.inner \in Handles
                         THEN [owning EXCEPT ![t][r.inner] = @ + 1]
                         ELSE owning
           /\ last' = Note("pop", t, NULL, r.res, r.inner)
           /\ prev' = Remember("pop", t, NULL, r.res, r.inner)
    /\ UNCHANGED <<live, created, destroyCalls, unowned, status, faults, watch, watched, pc, attrs>>

\* ContextStack::pop() on thread t.
Pop(t) ==
    /\ Running(t)
    /\ LET r == pop(stack[t])
       IN  /\ stack' = [stack EXCEPT ![t] = r.stack]
           /\ unowned' = IF r.res = "Ok" THEN unowned \cup {r.inner} ELSE unowned
           /\ last' = Note("pop", t, NULL, r.res, r.inner)
           /\ prev' = Remember("pop", t, NULL, r.res, r.inner)
    /\ UNCHANGED <<live, created, destroyCalls, owning, status, faults, watch, watched, pc, attrs>>

\* Faulty variant: one stack for the whole process, the push shows on every thread.
PushProcessWide(t, h) ==
    /\ Running(t)
    /\ h \in Available(t)
    /\ Len(stack[t]) < MaxDepth
    /\ LET r == push(stack[t], live, h)
       IN  /\ stack' = [u \in DOMAIN stack |-> r.stack]
           /\ last' = Note("push", t, h, r.res, NULL)
           /\ prev' = Remember("push", t, h, r.res, NULL)
    /\ UNCHANGED <<live, created, destroyCalls, owning, unowned, status, faults, watch, watched, pc, attrs>>

\* ContextStack::push(&ctx) on thread t, ctx wrapping h.
Push(t, h) ==
    /\ Running(t)
    /\ h \in Available(t)
    /\ Len(stack[t]) < MaxDepth
    /\ LET r == push(stack[t], live, h)
       IN  /\ stack' = [stack EXCEPT ![t] = r.stack]
           /\ last' = Note("push", t, h, r.res, NULL)
           /\ prev' = Remember("push", t, h, r.res, NULL)
    /\ UNCHANGED <<live, created, destroyCalls, owning, unowned, status, faults, watch, watched, pc, attrs>>

\* Faulty variant: the current context is taken off the stack to read it.
GetCurrentPops(t) ==
    /\ Running(t)
    /\ LET r == pop(stack[t])
       IN  /\ stack' = [stack EXCEPT ![t] = r.stack]
           /\ unowned' = IF r.res = "Ok" THEN unowned \cup {r.inner} ELSE unowned
           /\ last' = Note("get_current", t, NULL, r.res, r.inner)
           /\ prev' = RememberGot(t, r.res, r.inner)
    /\ UNCHANGED <<live, created, destroyCalls, owning, status, faults, watch, watched, pc, attrs>>

\* CurrentContext::get_current() on thread t.
GetCurrent(t) ==
    /\ Running(t)
    /\ LET r == get_current(stack[t])
       IN  /\ unowned' = IF r.res = "Ok" THEN unowned \cup {r.inner} ELSE unowned
           /\ last' = Note("get_current", t, NULL, r.res, r.inner)
           /\ prev' = RememberGot(t, r.res, r.inner)
    /\ UNCHANGED <<stack, live, created, destroyCalls, owning, status, faults, watch, watched, pc, attrs>>

\* CurrentContext::set_current(&c) on thread t, c wrapping h.
SetCurrent(t, h) ==
    /\ Running(t)
    /\ h \in Available(t)
    /\ LET r == set_current(stack[t], live, h)
       IN  /\ stack' = [stack EXCEPT ![t] = r.stack]
           /\ last' = Note("set_current", t, h, r.res, NULL)
           /\ prev' = Remember("set_current", t, h, r.res, NULL)
    /\ UNCHANGED <<live, created, destroyCalls, owning, unowned, status, faults, watch, watched, pc, attrs>>

\* One of the CurrentContext getters, setters or synchronize on thread t.
CurrentContextOp(t, op) ==
    /\ Running(t)
    /\ \E arg \in Args(op) :
        LET r == CurrentContextCall(op, stack[t], live, attrs, arg)
        IN  /\ attrs' = r.attrs
            /\ last' = Note(op, t, arg, r.res, r.val)
            /\ prev' = RememberConfig(op, t, arg, r.res, r.val)
    /\ UNCHANGED <<stack, live, created, destroyCalls, owning, unowned, status, faults, watch, watched, pc>>

Next ==
    \E t \in Threads :
        \/ CreateAndPush(t)
        \/ Pop(t)
        \/ GetCurrent(t)
        \/ \E op \in CurrentContextOps : CurrentContextOp(t, op)
        \/ \E h \in Handles :
            \/ ContextGetApiVersion(t, h)
            \/ GetUnowned(t, h)
            \/ Drop(t, h)
        \/ \E h \in CUcontext :
            \/ UnownedGetApiVersion(t, h)
            \/ Clone(t, h)
            \/ DropUnowned(t, h)
            \/ Push(t, h)
            \/ SetCurrent(t, h)

Spec == Init /\ [][Next]_vars

SpecSeq == InitSeq /\ [][Next]_vars

SpecFault == InitFault /\ [][Next]_vars

\* A healthy driver; contexts are created on either device, and the calls
\* that read the current context or its device are recorded.
InitDevice == InitProgram /\ faults = FALSE /\ watch = "device" /\ watched = 1

SpecDevice == InitDevice /\ [][Next]_vars

\* A healthy driver; contexts are created with different flags, and get_flags
\* is recorded.
InitFlags == InitProgram /\ faults = FALSE /\ watch = "flags" /\ watched = 1

SpecFlags == InitFlags /\ [][Next]_vars

\* A healthy driver; one of the three configuration settings is set to
\* different values, and its get and set are recorded: those of all threads
\* one at a time or, for the cache configuration, those of thread 1 in
\* sequence.
InitConfig ==
    /\ InitProgram
    /\ faults = FALSE
    /\ watch \in ConfigKeys
    /\ watched \in (IF watch = "cache_config" THEN {NULL, 1} ELSE {NULL})

SpecConfig == InitConfig /\ [][Next]_vars

-----------------------------------------------------------------------------
\* The multi-thread scenario: the owner thread creates a context and pops it,
\* hands a non-owning handle to each of NumWorkers threads it spawns, joins
\* them and drops the context; each worker pushes its handle, reads the API
\* version and pops.  Every call is unwrapped, so an Err is a panic.
NumWorkers == 4

Owner == 1

Workers == 2..(NumWorkers + 1)

ScenarioThreads == {Owner} \cup Workers

InitScenario ==
    /\ stack = [t \in ScenarioThreads |-> <<>>]
    /\ live = {}
    /\ created = 0
    /\ destroyCalls = [h \in Handles |-> 0]
    /\ owning = [t \in ScenarioThreads |-> [h \in Handles |-> 0]]
    /\ unowned = {}
    /\ status = [t \in ScenarioThreads |-> "running"]
    /\ faults = FALSE
    /\ watch = "last"
    /\ watched = Owner
    /\ last = NoNote
    /\ prev = NoOp
    /\ pc = [t \in ScenarioThreads |-> IF t = Owner THEN "create" ELSE "unborn"]
    /\ attrs = [h \in Handles |-> NoAttrs]

\* Thread t goes on to next after an Ok; the unwrap of an Err panics.
Goto(t, res, next) == pc' = [pc EXCEPT ![t] = IF res = "Ok" THEN next ELSE "panicked"]

\* The context the owner thread holds, and the handle it hands to the workers.
Owned == {h \in Handles : owning[Owner][h] > 0}

\* let context = Context::create_and_push(...).unwrap();
OwnerCreate ==
    /\ pc[Owner] = "create"
    /\ \E S \in FlagChoices, dev \in Devices, native \in Native :
        LET c == created + 1
            flags == ContextFlags(S)
            r == create_and_push(stack[Owner], live, c, native)
        IN  /\ stack' = [stack EXCEPT ![Owner] = r.stack]
            /\ live' = r.live
            /\ created' = IF r.res = "Ok" THEN c ELSE created
            /\ owning' = IF r.res = "Ok"
                          THEN [owning EXCEPT ![Owner][r.inner] = @ + 1]
                          ELSE owning
            /\ attrs' = IF r.res = "Ok"
                         THEN [attrs EXCEPT ![r.inner] =
                                  [cuCtxNew(bits(flags), dev) EXCEPT !.asked = flags]]
                         ELSE attrs
            /\ last' = Note("create_and_push", Owner, NULL, r.res, r.inner)
            /\ Goto(Owner, r.res, "pop")
    /\ UNCHANGED <<destroyCalls, unowned, status, faults, watch, watched, prev>>

\* ContextStack::pop().unwrap(); on the owner thread.
OwnerPop ==
    /\ pc[Owner] = "pop"
    /\ LET r == pop(stack[Owner])
       IN  /\ stack' = [stack EXCEPT ![Owner] = r.stack]
           /\ unowned' = IF r.res = "Ok" THEN unowned \cup {r.inner} ELSE unowned
           /\ last' = Note("pop", Owner, NULL, r.res, r.inner)
           /\ Goto(Owner, r.res, "spawn")
    /\ UNCHANGED <<live, created, destroyCalls, owning, status, faults, watch, watched, prev, attrs>>

\* for _ in 0..4 { let unowned = context.get_unowned(); thread::spawn(...) }
OwnerSpawn ==
    /\ pc[Owner] = "spawn"
    /\ \E h \in Owned :
        /\ unowned' = unowned \cup {get_unowned(h)}
        /\ last' = Note("get_unowned", Owner, h, "Ok", get_unowned(h))
    /\ pc' = [t \in ScenarioThreads |-> IF t = Owner THEN "join" ELSE "push"]
    /\ UNCHANGED <<stack, live, created, destroyCalls, owning, status, faults, watch, watched, prev, attrs>>

\* ContextStack::push(&unowned).unwrap(); on worker w.
WorkerPush(w) ==
    /\ pc[w] = "push"
    /\ \E h \in Owned :
        LET r == push(stack[w], live, get_unowned(h))
        IN  /\ stack' = [stack EXCEPT ![w] = r.stack]
            /\ last' = Note("push", w, get_unowned(h), r.res, NULL)
            /\ Goto(w, r.res, "query")
    /\ UNCHANGED <<live, created, destroyCalls, owning, unowned, status, faults, watch, watched, prev, attrs>>

\* unowned.get_api_version().unwrap(); on worker w.
WorkerQuery(w) ==
    /\ pc[w] = "query"
    /\ \E h \in Owned :
        \E res \in get_api_version(live, get_inner(get_unowned(h))) :
            /\ last' = Note("UnownedContext::get_api_version", w, get_unowned(h), res,
                            get_inner(get_unowned(h)))
            /\ Goto(w, res, "pop")
    /\ UNCHANGED <<stack, live, created, destroyCalls, owning, unowned, status, faults, watch, watched, prev, attrs>>

\* ContextStack::pop().unwrap(); on worker w, which then ends.
WorkerPop(w) ==
    /\ pc[w] = "pop"
    /\ LET r == pop(stack[w])
       IN  /\ stack' = [stack EXCEPT ![w] = r.stack]
           /\ unowned' = IF r.res = "Ok" THEN unowned \cup {r.inner} ELSE unowned
           /\ last' = Note("pop", w, NULL, r.res, r.inner)
           /\ Goto(w, r.res, "done")
    /\ UNCHANGED <<live, created, destroyCalls, owning, status, faults, watch, watched, prev, attrs>>

\* handle.join().unwrap() for every worker, then drop(context).
OwnerJoinDrop ==
    /\ pc[Owner] = "join"
    /\ \A w \in Workers : pc[w] = "done"
    /\ \E h \in Owned, native \in Native :
        LET r == drop(stack[Owner], live, h, native)
        IN  /\ stack' = [stack EXCEPT ![Owner] = r.stack]
            /\ live' = r.live
            /\ status' = IF r.panic THEN [status EXCEPT ![Owner] = "unwinding"] ELSE status
            /\ destroyCalls' = [destroyCalls EXCEPT ![h] = @ + 1]
            /\ owning' = [owning EXCEPT ![Owner][h] = @ - 1]
            /\ attrs' = IF r.res = "Ok" THEN [attrs EXCEPT ![h] = NoAttrs] ELSE attrs
            /\ last' = Note("drop", Owner, h, r.res, NULL)
            /\ pc' = [pc EXCEPT ![Owner] = IF r.panic THEN "panicked" ELSE "verify"]
    /\ UNCHANGED <<created, unowned, faults, watch, watched, prev>>

\* A get_api_version through one of the handles handed out before the drop.
OwnerVerify ==
    /\ pc[Owner] = "verify"
    /\ \E h \in unowned :
        \E res \in get_api_version(live, get_inner(h)) :
            last' = Note("UnownedContext::get_api_version", Owner, h, res, get_inner(h))
    /\ pc' = [pc EXCEPT ![Owner] = "end"]
    /\ UNCHANGED <<stack, live, created, destroyCalls, owning, unowned, status, faults, watch, watched, prev, attrs>>

NextScenario ==
    \/ OwnerCreate
    \/ OwnerPop
    \/ OwnerSpawn
    \/ \E w \in Workers :
        \/ WorkerPush(w)
        \/ WorkerQuery(w)
        \/ WorkerPop(w)
    \/ OwnerJoinDrop
    \/ OwnerVerify

SpecScenario == InitScenario /\ [][NextScenario]_vars

-----------------------------------------------------------------------------
\* Helpers of the properties.

\* The Context values, over all threads, that wrap h.
Owners(h) == {t \in Threads : owning[t][h] > 0}

\* Operations that hand out an UnownedContext.
HandsOutUnowned == {"get_unowned", "pop", "get_current", "clone"}

\* C1: each native context is destroyed at most once: the native destroy call
\* is never issued twice for the same context handle.
C1_DestroyedAtMostOnce ==
    \A h \in Handles : destroyCalls[h] <= 1

\* A context that was pushed on another thread's stack and handed out as an
\* UnownedContext has been destroyed by its owner's drop, once.
C1_Witness ==
    /\ last.op = "drop"
    /\ destroyCalls[last.h] = 1
    /\ last.h \notin live
    /\ last.h \in unowned
    /\ \E u \in Threads \ {last.t} : OnStack(u, last.h)

\* C2: only the drop of the owning Context ends the life of a native context:
\* get_unowned, cloning or dropping an UnownedContext,
\* UnownedContext::get_api_version, push, pop, get_current and set_current
\* leave the set of live contexts unchanged, on whichever thread they run.
C2_OnlyDropChangesLive ==
    [][/\ (last'.op \in {"get_unowned", "clone", "drop_unowned",
                         "UnownedContext::get_api_version", "push", "pop",
                         "get_current", "set_current"} => live' = live)
       /\ (live \ live' # {} => last'.op = "drop")]_vars

\* The last UnownedContext of a live context was dropped on a thread that
\* does not own the context, and the context is still live.
C2_Witness ==
    /\ last.op = "drop_unowned"
    /\ last.h \in live
    /\ owning[last.t][last.h] = 0
    /\ OnStack(last.t, last.h)

\* C3: there is at most one owning Context per native context, and what
\* get_unowned, pop, get_current and clone hand out is an UnownedContext,
\* never a second Context.
C3_OneOwner ==
    /\ \A h \in Handles :
        /\ Cardinality(Owners(h)) <= 1
        /\ \A t \in Threads : owning[t][h] <= 1
    /\ (last.op \in HandsOutUnowned /\ last.res = "Ok") => last.ret \in unowned

\* pop has handed out a handle to a live context that has its owner, on a
\* thread other than the owner's.
C3_Witness ==
    /\ last.op = "pop"
    /\ last.res = "Ok"
    /\ last.ret \in live
    /\ Owners(last.ret) # {}
    /\ last.t \notin Owners(last.ret)

\* C4: after the owning Context has been dropped, get_api_version on an
\* UnownedContext derived from it returns an error, on any thread.
C4_StaleHandleErr ==
    /\ \A h \in Handles : destroyCalls[h] > 0 => get_api_version(live, h) = {"Err"}
    /\ (/\ last.op = "UnownedContext::get_api_version"
        /\ last.h \in Handles
        /\ destroyCalls[last.h] > 0) => last.res = "Err"

\* get_api_version was called on a stale handle on a thread that still has the
\* destroyed context on its stack.
C4_Witness ==
    /\ last.op = "UnownedContext::get_api_version"
    /\ last.h \in Handles
    /\ destroyCalls[last.h] > 0
    /\ last.res = "Err"
    /\ OnStack(last.t, last.h)

\* C5: dropping the owning Context destroys the native context in every state,
\* also when the context is on the stack of (or current on) other threads: the
\* drop is not deferred, blocked or failed because of those entries.
C5_DropDestroys ==
    /\ \A t \in Threads : \A h \in Handles :
        owning[t][h] > 0 =>
            LET r == drop(stack[t], live, h, "CUDA_SUCCESS")
            IN  r.res = "Ok" /\ ~r.panic /\ h \notin r.live
    /\ last.op = "drop" =>
        /\ last.res = "Ok"
        /\ last.h \notin live
        /\ destroyCalls[last.h] = 1

\* The context was current on another thread when its owner dropped it.
C5_Witness ==
    /\ last.op = "drop"
    /\ last.res = "Ok"
    /\ last.h \notin live
    /\ \E u \in Threads \ {last.t} : Top(stack[u]) = last.h

C9_EmptyStackErr ==
    (last.op \in CurrentContextOps \cup {"get_current"} /\ last.before = <<>>) =>
        last.res = "Err"

-----------------------------------------------------------------------------
\* Properties of sequences of calls on one thread, under SpecSeq.

\* C8: on a thread whose stack is empty, a successful create_and_push followed
\* immediately by a successful pop leaves the stack empty, and a get_current
\* on that thread after it returns an error.
C8_CreatePopGetCurrent ==
    (/\ prev.op = "pop"
     /\ prev.res = "Ok"
     /\ prev.priorOp = "create_and_push"
     /\ prev.priorBefore = <<>>) =>
        /\ stack[watched] = <<>>
        /\ prev.got # "none" => prev.got = "Err"

\* C10: a successful push(h) on thread T followed by pop on T, with no other
\* stack operation on T in between, returns an UnownedContext that wraps h,
\* and T's stack is again what it was before the push.
C10_PushPopRoundTrip ==
    (prev.op = "pop" /\ prev.priorOp = "push") =>
        /\ prev.res = "Ok"
        /\ prev.ret = prev.priorH
        /\ stack[watched] = prev.priorBefore

\* A push of a context owned by another thread, on a non-empty stack, was
\* followed by a pop.
C10_Witness ==
    /\ prev.op = "pop"
    /\ prev.priorOp = "push"
    /\ prev.priorBefore # <<>>
    /\ prev.ret = prev.priorH
    /\ prev.ret # Top(prev.priorBefore)
    /\ owning[watched][prev.ret] = 0

-----------------------------------------------------------------------------
\* Properties of the stack operations, checked under Spec.

\* C11: ContextStack::pop on a non-empty stack removes exactly the top entry
\* and returns a non-owning handle to the context that was the top; on an
\* empty stack it returns an error and the stack stays empty.
C11_PopTakesTop ==
    last.op = "pop" =>
        IF last.before = <<>>
        THEN /\ last.res = "Err"
             /\ stack[last.t] = <<>>
        ELSE /\ last.res = "Ok"
             /\ stack[last.t] = Front(last.before)
             /\ last.ret = Top(last.before)
             /\ last.ret \in unowned

\* A pop took the top of a stack of two different contexts.
C11_Witness ==
    /\ last.op = "pop"
    /\ Len(last.before) = 2
    /\ last.before[1] # last.before[2]
    /\ last.ret = last.before[2]
    /\ stack[last.t] = <<last.before[1]>>

\* C12: on an empty stack, set_current(h) has the same effect as push(h) for
\* every handle h of a live context: the depth goes from 0 to 1 and h is the
\* single, current entry.
C12_SetCurrentOnEmptyIsPush ==
    /\ \A h \in live :
        /\ set_current(<<>>, live, h) = push(<<>>, live, h)
        /\ set_current(<<>>, live, h) = [res |-> "Ok", stack |-> <<h>>]
    /\ (/\ last.op \in {"set_current", "push"}
        /\ last.before = <<>>
        /\ last.h \in live) =>
            /\ last.res = "Ok"
            /\ stack[last.t] = <<last.h>>

\* set_current bound a live context of another thread on an empty stack.
C12_Witness ==
    /\ last.op = "set_current"
    /\ last.before = <<>>
    /\ last.h \in live
    /\ owning[last.t][last.h] = 0
    /\ stack[last.t] = <<last.h>>

\* C13: on a non-empty stack a successful set_current(h), for every handle h
\* the API can produce, leaves the depth unchanged: the top entry becomes h
\* and the entries below it are unchanged.
C13_SetCurrentKeepsDepth ==
    (/\ last.op = "set_current"
     /\ last.res = "Ok"
     /\ last.before # <<>>) =>
        /\ Len(stack[last.t]) = Len(last.before)
        /\ Top(stack[last.t]) = last.h
        /\ Front(stack[last.t]) = Front(last.before)

C15_SameApiVersion ==
    /\ \A t \in Threads, h \in Handles :
        (owning[t][h] > 0 /\ h \in live) =>
            /\ get_api_version(live, get_inner(get_unowned(h))) = get_api_version(live, get_inner(h))
            /\ get_api_version(live, get_inner(h)) = {"Ok"}
    /\ (/\ last.op \in {"Context::get_api_version", "UnownedContext::get_api_version"}
        /\ last.h \in live) =>
            /\ last.res = "Ok"
            /\ last.ret = last.h

\* A thread that does not own the live context and has another context, or
\* none, current read the version through a non-owning handle.
C15_Witness ==
    /\ last.op = "UnownedContext::get_api_version"
    /\ last.h \in live
    /\ owning[last.t][last.h] = 0
    /\ Top(stack[last.t]) # last.h
    /\ last.res = "Ok"

\* C18: get_unowned has no side effect: every thread's stack and the set of
\* live contexts are as before the call, and the handle it returns wraps the
\* same native context as the owning Context.
C18_GetUnownedPure ==
    /\ \A h \in Handles : get_inner(get_unowned(h)) = get_inner(h)
    /\ last.op = "get_unowned" =>
        /\ stack = last.stacks
        /\ live = last.lives
        /\ last.res = "Ok"
        /\ last.ret = last.h
        /\ last.ret \in unowned

\* get_unowned was called on a live context that is not current to its owner,
\* whose stack is not empty.
C18_Witness ==
    /\ last.op = "get_unowned"
    /\ last.h \in live
    /\ stack[last.t] # <<>>
    /\ Top(stack[last.t]) # last.h
    /\ last.ret = last.h

\* C19: the stacks are private to their threads: push, pop, set_current and
\* create_and_push on thread A leave the stack of every other thread B
\* unchanged.
C19_StacksPrivate ==
    last.op \in {"push", "pop", "set_current", "create_and_push"} =>
        \A u \in Threads \ {last.t} : stack[u] = last.stacks[u]

\* A push changed the caller's stack while the other thread's stack, not
\* empty and different from the caller's, stayed as it was.
C19_Witness ==
    /\ last.op = "push"
    /\ last.res = "Ok"
    /\ stack[last.t] # last.before
    /\ \E u \in Threads \ {last.t} :
        /\ stack[u] # <<>>
        /\ stack[u] # stack[last.t]
        /\ stack[u] = last.stacks[u]

\* C20: dropping an owning Context on a thread where its context is current
\* removes it from that thread's stack, so that the entry below, if any,
\* becomes current; the stacks of the other threads are unchanged.
C20_DropPopsCurrent ==
    (/\ last.op = "drop"
     /\ last.res = "Ok"
     /\ Top(last.before) = last.h) =>
        /\ stack[last.t] = Front(last.before)
        /\ Top(stack[last.t]) = Top(Front(last.before))
        /\ \A u \in Threads \ {last.t} : stack[u] = last.stacks[u]

\* A context was dropped while current above another context, and while it
\* was on the other thread's stack, where it stayed.
C20_Witness ==
    /\ last.op = "drop"
    /\ last.res = "Ok"
    /\ Len(last.before) = 2
    /\ last.before[2] = last.h
    /\ last.before[1] # last.h
    /\ stack[last.t] = <<last.before[1]>>
    /\ \E u \in Threads \ {last.t} : OnStack(u, last.h)

\* C24: whenever push, pop or set_current returns an error, the calling
\* thread's stack is exactly what it was before the call.
C24_FailedCallKeepsStack ==
    (last.op \in {"push", "pop", "set_current"} /\ last.res = "Err") =>
        /\ stack[last.t] = last.before
        /\ stack = last.stacks

\* set_current failed with the handle of a destroyed context on a stack that
\* was not empty.
C24_Witness ==
    /\ last.op = "set_current"
    /\ last.res = "Err"
    /\ last.h \notin live
    /\ last.before # <<>>
    /\ stack[last.t] = last.before

\* C25: every UnownedContext returned in an Ok by pop, get_current or
\* get_unowned wraps the handle of a context created earlier by
\* create_and_push; no successful call returns a handle that wraps null.
C25_NoNullHandle ==
    /\ (last.op \in {"pop", "get_current", "get_unowned"} /\ last.res = "Ok") =>
        /\ last.ret # NULL
        /\ last.ret \in 1..created
    /\ \A h \in unowned : h # NULL /\ h \in 1..created

-----------------------------------------------------------------------------
\* Checked under SpecFault, where the driver can fail a create or a destroy.

\* C16: the drop of an owning Context ends in a panic exactly when the native
\* destroy returns an error; when the destroy succeeds the drop completes
\* normally, and a failed destroy is never swallowed.  (A panic shows as the
\* dropping thread starting to unwind, or as an abort if it already was.)
C16_DropPanicsIffDestroyErr ==
    [][last'.op = "drop" =>
        /\ (last'.res = "Err") <=> (status' # status)
        /\ last'.res = "Err" =>
            status'[last'.t] = IF status[last'.t] = "running" THEN "unwinding" ELSE "aborted"]_vars

\* A drop whose destroy failed left the dropping thread unwinding, the
\* context still live.
C16_Witness ==
    /\ last.op = "drop"
    /\ last.res = "Err"
    /\ last.h \in live
    /\ status[last.t] = "unwinding"

-----------------------------------------------------------------------------
\* Checked under SpecScenario.

\* C17: in the scenario, in every interleaving of the workers, every call up
\* to the owner's drop succeeds, each worker's stack is empty when it ends,
\* and after the drop a get_api_version through any handle handed out before
\* it returns an error.
C17_Scenario ==
    /\ \A t \in ScenarioThreads : pc[t] # "panicked"
    /\ pc[Owner] # "end" => last.res = "Ok"
    /\ \A w \in Workers :
        /\ pc[w] \in {"query", "pop"} => Top(stack[w]) \in live
        /\ pc[w] = "done" => stack[w] = <<>>
    /\ pc[Owner] \in {"verify", "end"} =>
        /\ unowned # {}
        /\ \A h \in unowned : get_api_version(live, get_inner(h)) = {"Err"}
    /\ pc[Owner] = "end" => last.res = "Err"

\* The scenario has run to its end: all workers done, the context dropped,
\* the late query answered with an error.
C17_Witness ==
    /\ pc[Owner] = "end"
    /\ \A w \in Workers : pc[w] = "done" /\ stack[w] = <<>>
    /\ last.op = "UnownedContext::get_api_version"
    /\ last.res = "Err"
    /\ live = {}

-----------------------------------------------------------------------------
\* Checked under SpecDevice.

\* C21: the CurrentContext operations target the context on top of the
\* calling thread's stack at the moment of the call and no other: get_current
\* and get_device return the top context and its creation device, whatever
\* was pushed before it or popped since; get_current leaves the stacks
\* unchanged.
C21_TargetsTop ==
    /\ last.op = "get_device" =>
        IF last.before # <<>> /\ Top(last.before) \in live
        THEN /\ last.res = "Ok"
             /\ last.ret = attrs[Top(last.before)].device
             /\ stack = last.stacks
        ELSE last.res = "Err"
    /\ (last.op = "get_current" /\ last.before # <<>>) =>
        /\ last.res = "Ok"
        /\ last.ret = Top(last.before)
        /\ stack = last.stacks

\* get_device answered with the device of the top context b, on a stack
\* <<a, b>> of two contexts created on different devices.
C21_Witness ==
    /\ last.op = "get_device"
    /\ Len(last.before) = 2
    /\ last.before[1] \in live
    /\ last.before[2] \in live
    /\ attrs[last.before[1]].device # attrs[last.before[2]].device
    /\ last.ret = attrs[last.before[2]].device

-----------------------------------------------------------------------------
\* Checked under SpecFlags.

\* Every combination of the six flags, taken through the conversions of
\* create_and_push and get_flags.
FlagsRoundTrip ==
    \A S \in SUBSET FlagNames :
        from_bits_truncate(cuCtxNew(bits(ContextFlags(S)), 0).flags) = ContextFlags(S)

\* C22: for every ContextFlags value F, when a context created by
\* create_and_push(F, device) is current on the calling thread, get_flags
\* returns exactly F.  (The runs create contexts with the flags of
\* FlagChoices; the second conjunct takes every combination of the six flags
\* through the same conversions.)
C22_GetFlagsReturnsCreationFlags ==
    /\ (/\ last.op = "get_flags"
        /\ last.before # <<>>
        /\ Top(last.before) \in live) =>
            /\ last.res = "Ok"
            /\ last.ret = attrs[Top(last.before)].asked
    /\ FlagsRoundTrip

\* get_flags returned SCHED_YIELD | LMEM_RESIZE_TO_MAX for the top context,
\* created with these flags, above a context created with other flags.
C22_Witness ==
    /\ last.op = "get_flags"
    /\ Len(last.before) = 2
    /\ last.res = "Ok"
    /\ last.ret = ContextFlags({"SCHED_YIELD", "LMEM_RESIZE_TO_MAX"})
    /\ attrs[last.before[2]].asked = last.ret
    /\ attrs[last.before[1]].asked # last.ret

-----------------------------------------------------------------------------
\* Checked under SpecConfig.

\* The get that matches the setting under watch.
Getter == CHOOSE op \in WatchedOps : op \notin ConfigSetters

=============================================================================
